---- MODULE Spec2Model ----
(***************************************************************************)
(* Model of the text-mode parser src/plugins/text-mode/down/textToAST.ts:  *)
(* the lexer's token stream, the ParseState primitives (next, peek,        *)
(* consume, consumeType, scanToNextStatement), the Pratt dispatcher        *)
(* (parseMain with its initial and consequent parselets), the statement    *)
(* loop parseStatements and the entry point parse.                         *)
(*                                                                         *)
(* The input of a parse is the sequence of lexemes the moo lexer cuts the  *)
(* source string into.  The parselets are recursive operators that thread  *)
(* the ParseState through and return a record [ps, node, exc]; exc is      *)
(* "none" on a normal return, "ParseError" when the code throws a          *)
(* ParseError, "Error" when it throws anything else (TypeError,            *)
(* SyntaxError), and "Diverge" when a loop iteration would leave the       *)
(* ParseState exactly as it found it (the code would loop forever).        *)
(***************************************************************************)
EXTENDS Integers, Sequences, FiniteSets, TLC

VARIABLES
    input,      \* the lexer's token stream: a sequence of lexemes
    ps,         \* the ParseState: lexer position, curr, prevToken, diagnostics
    out,        \* parseStatements' local `out` of the top-level call
    pc,         \* "loop" | "end" | "done" | "raised" | "diverged"
    last,       \* what the latest iteration of the top-level loop did
    idIn,       \* normalizeID check: the lexeme, a sequence of characters
    idOut,      \* normalizeID check: the name it produced
    ret         \* consume check: the call, and what it returned or threw

vars == <<input, ps, out, pc, last, idIn, idOut, ret>>

----------------------------------------------------------------------------
(* Bounds *)

MaxLen == 4         \* tokens in an input of the general specification
MaxIdLen == 4       \* characters in a lexeme given to normalizeID

----------------------------------------------------------------------------
(* Lexer: rules, lines 14-42 *)

punct ==
    {"<", "<=", "=", ">=", ">", "~",
     "->", ",", ":", "...", ".", "'",
     "+", "-", "*", "/", "^", "!", "d/d",
     "@{", "#{", "(", ")", "[", "]", "{", "}"}

keyword ==
    {"table", "image", "settings", "folder", "ticker",
     "for", "integral", "sum", "product", "of", "with"}

\* Lexemes of the other rules that the inputs of the model are built from.
NumberLexemes == {"1", "2"}
StringLexemes == {"\"s\"", "\"\\q\""}    \* "s" and "\q": both match rules.string
SemiLexemes == {";"}
SpaceLexemes == {" "}
CommentLexemes == {"//c"}
InvalidLexemes == {"#", "$"}
IdLexemes == {"x", "y", "xy", "else", "constructor"}

\* The token type moo gives a lexeme (rules, first match wins).
TypeOf(lexeme) ==
    CASE lexeme \in CommentLexemes -> "comment"
      [] lexeme \in NumberLexemes -> "number"
      [] lexeme \in punct -> "punct"
      [] lexeme \in keyword -> "keyword"
      [] lexeme \in IdLexemes -> "id"
      [] lexeme \in StringLexemes -> "string"
      [] lexeme \in SemiLexemes -> "semi"
      [] lexeme \in SpaceLexemes -> "space"
      [] OTHER -> "invalid"

\* token.text.length
TextLen(lexeme) ==
    CASE lexeme \in {"<=", ">=", "->", "@{", "#{", "xy"} -> 2
      [] lexeme \in {"...", "d/d", "//c", "\"s\"", "for", "sum", "of"} -> 3
      [] lexeme \in {"\"\\q\"", "else", "with"} -> 4
      [] lexeme \in {"table", "image"} -> 5
      [] lexeme \in {"folder", "ticker"} -> 6
      [] lexeme \in {"product"} -> 7
      [] lexeme \in {"settings", "integral"} -> 8
      [] lexeme = "constructor" -> 11
      [] OTHER -> 1

RECURSIVE OffsetOf(_)
\* token.offset of the i-th token of the input (moo counts code units)
OffsetOf(i) == IF i <= 1 THEN 0 ELSE OffsetOf(i - 1) + TextLen(input[i - 1])

\* The i-th token the lexer yields.
Token(i) ==
    [type |-> TypeOf(input[i]), value |-> input[i],
     offset |-> OffsetOf(i), len |-> TextLen(input[i])]

NoToken == [type |-> "null", value |-> "", offset |-> 0, len |-> 0]

\* The characters of an id lexeme (token.value seen as a JavaScript string).
Chars(lexeme) ==
    CASE lexeme = "x" -> <<"x">>
      [] lexeme = "y" -> <<"y">>
      [] lexeme = "xy" -> <<"x", "y">>
      [] lexeme = "else" -> <<"e", "l", "s", "e">>
      [] lexeme = "constructor" ->
           <<"c", "o", "n", "s", "t", "r", "u", "c", "t", "o", "r">>
      [] OTHER -> <<lexeme>>

----------------------------------------------------------------------------
(* Binding powers, lines 44-71 *)

Power ==
    [top |-> 0, meta |-> 10, seq |-> 20, rel |-> 30, sim |-> 40,
     updateRule |-> 50, substitution |-> 60, derivative |-> 70, add |-> 80,
     mul |-> 90, prefix |-> 100, pow |-> 110, postfix |-> 120, call |-> 130,
     access |-> 140, member |-> 150]

\* minus1 that leaves the binding power as it is
minus1Same(bp) == bp

minus1(bp) == bp - 1

----------------------------------------------------------------------------
(* Results of the operations *)

NoNode == [type |-> "null"]

Ok(s, node) == [ps |-> s, node |-> node, exc |-> "none"]
Throw(s) == [ps |-> s, node |-> NoNode, exc |-> "ParseError"]
Raise(s) == [ps |-> s, node |-> NoNode, exc |-> "Error"]
Diverge(s) == [ps |-> s, node |-> NoNode, exc |-> "Diverge"]
Failed(r) == r.exc # "none"

\* Sequencing of the operations: F applied to the result r of an operation
\* that returned normally; an exception thrown by it propagates.
Bind(r, F(_)) == IF Failed(r) THEN r ELSE F(r)

\* A local constant: F applied to the value v
With(v, F(_)) == F(v)

----------------------------------------------------------------------------
(* DiagnosticsState and ParseState, lines 77-168 *)

\* lexer position, curr, prevToken and diagnostics are the fields of the
\* class; the others are a history the code does not keep: recoveries has one
\* entry for each run of the catch block of parseStatements, skipped counts
\* the tokens consume and consumeType skipped, dropped the statements the
\* table parselet left out of its columns.
NewParseState ==
    [pos |-> 0, curr |-> NoToken, prevToken |-> 0, diagnostics |-> <<>>,
     recoveries |-> <<>>, skipped |-> 0, dropped |-> 0]

\* The number of tokens of the input the parser has taken from the ParseState
\* (a buffered lookahead is not yet taken).
Consumed(s) == s.pos - (IF s.curr.type \in {"null", "eof"} THEN 0 ELSE 1)

\* The tokens not yet taken from the ParseState: those the lexer still holds
\* and a buffered lookahead that is not eof.
Remaining(s) ==
    (Len(input) - s.pos) + (IF s.curr.type \in {"null", "eof"} THEN 0 ELSE 1)

pushError(s, message, from, to) ==
    [s EXCEPT !.diagnostics =
        Append(@, [severity |-> "error", message |-> message,
                   from |-> from, to |-> to])]

pushWarning(s, message, from, to) ==
    [s EXCEPT !.diagnostics =
        Append(@, [severity |-> "warning", message |-> message,
                   from |-> from, to |-> to])]

\* pushError with the span pos(token)
pushErrorAt(s, message, token) ==
    pushError(s, message, token.offset, token.offset + token.len)

\* pushError with the span of a node, which the model does not track
pushErrorNode(s, message) == pushError(s, message, -1, -1)

\* pushFatalError that pushes no diagnostic
pushFatalErrorSilent(s, message, token) == Throw(s)

pushFatalError(s, message, token) == Throw(pushErrorAt(s, message, token))

pushFatalErrorNode(s, message) == Throw(pushErrorNode(s, message))

\* _next: lexer.next(), remembered in prevToken (0 stands for undefined)
LexNext(s) ==
    IF s.pos < Len(input)
    THEN [ps |-> [s EXCEPT !.pos = @ + 1, !.prevToken = s.pos + 1],
          defined |-> TRUE, tok |-> Token(s.pos + 1)]
    ELSE [ps |-> [s EXCEPT !.prevToken = 0], defined |-> FALSE, tok |-> NoToken]

EofToken(prev) ==
    [type |-> "eof", value |-> "",
     offset |-> IF prev # 0 THEN OffsetOf(prev) + TextLen(input[prev]) ELSE 0,
     len |-> 0]

RECURSIVE next(_)
next(s) ==
    With(LexNext(s), LAMBDA r :
        IF ~r.defined THEN [ps |-> r.ps, tok |-> EofToken(s.prevToken)]
        ELSE IF r.tok.type = "invalid"
        THEN next(pushErrorAt(r.ps, "Invalid character", r.tok))
        ELSE IF r.tok.type \in {"space", "comment"} THEN next(r.ps)
        ELSE [ps |-> r.ps, tok |-> r.tok])

RECURSIVE ScanLoop(_)
ScanLoop(s) ==
    With(LexNext(s), LAMBDA r :
        IF ~r.defined \/ r.tok.type = "semi" THEN r.ps ELSE ScanLoop(r.ps))

scanToNextStatement(s) ==
    IF s.curr.type = "semi" THEN s
    ELSE ScanLoop([s EXCEPT !.curr = NoToken])

peek(s) ==
    IF s.curr.type = "null"
    THEN With(next(s), LAMBDA r :
             [ps |-> [r.ps EXCEPT !.curr = r.tok], tok |-> r.tok])
    ELSE [ps |-> s, tok |-> s.curr]

\* _consume that forgets to clear curr
Consume1KeepsCurr(s) ==
    IF s.curr.type = "null" THEN next(s)
    ELSE [ps |-> s, tok |-> s.curr]

\* _consume, lines 128-133
Consume1(s) ==
    IF s.curr.type = "null" THEN next(s)
    ELSE [ps |-> [s EXCEPT !.curr = NoToken], tok |-> s.curr]

\* assertNotEOF that accepts eof
assertNotEOFAcceptsAll(s, token) == Ok(s, token)

assertNotEOF(s, token) ==
    IF token.type = "eof"
    THEN pushFatalError(s, "Unexpected end of file", token)
    ELSE Ok(s, token)

Undefined == "<undefined>"

RECURSIVE consume(_, _)
consume(s, expected) ==
    With(Consume1(s), LAMBDA c :
    Bind(assertNotEOF(c.ps, c.tok), LAMBDA a :
        IF expected = Undefined \/ expected = c.tok.value THEN Ok(c.ps, c.tok)
        ELSE IF Remaining(c.ps) >= Remaining(s) THEN Diverge(c.ps)
        ELSE consume([pushErrorAt(c.ps, "Expected value. Skipping it.", c.tok)
                         EXCEPT !.skipped = @ + 1],
                     expected)))

RECURSIVE consumeType(_, _)
consumeType(s, expected) ==
    With(Consume1(s), LAMBDA c :
    Bind(assertNotEOF(c.ps, c.tok), LAMBDA a :
        IF expected = c.tok.type THEN Ok(c.ps, c.tok)
        ELSE IF Remaining(c.ps) >= Remaining(s) THEN Diverge(c.ps)
        ELSE consumeType([pushErrorAt(c.ps, "Expected type. Skipping it.",
                                      c.tok)
                             EXCEPT !.skipped = @ + 1],
                         expected)))

----------------------------------------------------------------------------
(* TextAST node classes (./TextAST: isStatement, isExpression) *)

StatementTypes ==
    {"ExprStatement", "Text", "Table", "Image", "Folder", "Settings", "Ticker"}

ExpressionTypes ==
    {"Number", "Identifier", "String", "PrefixExpression", "PostfixExpression",
     "BinaryExpression", "DoubleInequality", "SequenceExpression",
     "RangeExpression", "ListExpression", "ListComprehension",
     "ListAccessExpression", "MemberExpression", "CallExpression",
     "PrimeExpression", "DerivativeExpression", "RepeatedExpression",
     "PiecewiseExpression", "UpdateRule", "AssignmentExpression",
     "Substitution"}

isStatement(node) == node.type \in StatementTypes

isExpression(node) == node.type \in ExpressionTypes

----------------------------------------------------------------------------
(* Identifiers, lines 446-510 *)

ElseName == <<"e", "l", "s", "e">>
ErrorName == <<"e", "r", "r", "o", "r">>

fragileNames ==
    {<<"p", "o", "l", "y", "G", "a", "m", "m", "a">>,
     <<"a", "r", "g", "m", "i", "n">>,
     <<"a", "r", "g", "m", "a", "x">>,
     <<"u", "n", "i", "q", "u", "e", "P", "e", "r", "m">>,
     <<"r", "t", "x", "s", "q", "p", "o", "n", "e">>,
     <<"r", "t", "x", "s", "q", "m", "o", "n", "e">>,
     <<"h", "y", "p", "o", "t">>}

desModderNames == {ElseName, <<"t", "r", "u", "e">>, <<"f", "a", "l", "s", "e">>}

\* autoOperatorNames and autoCommandNames come from utils/depUtils; the model
\* keeps two of their names, both built from letters only.
autoNames == {<<"l", "n">>, <<"p", "i">>}

dontSubscriptIdentifiers ==
    autoNames \cup fragileNames
        \cup {<<"i", "n", "d", "e", "x">>, <<"d", "t">>} \cup desModderNames

DigitChars == {"0", "1", "2", "3", "4", "5", "6", "7", "8", "9"}

\* The indices of '_' in a lexeme: token.value.split("_") has one more part
\* than there are of them.
Underscores(chars) == {i \in 1..Len(chars) : chars[i] = "_"}

\* normalizeID without the test for digits before '_'
normalizeNameNoDigitTest(chars) ==
    LET us == Underscores(chars)
        parts == Cardinality(us) + 1
    IN  IF parts = 1
        THEN IF Len(chars) = 1 \/ chars \in dontSubscriptIdentifiers
             THEN [name |-> chars, error |-> ""]
             ELSE [name |-> <<chars[1], "_">> \o SubSeq(chars, 2, Len(chars)),
                   error |-> ""]
        ELSE IF parts = 2
        THEN IF chars[Len(chars)] = "_"
             THEN [name |-> ErrorName, error |-> "Cannot end with '_'"]
             ELSE [name |-> chars, error |-> ""]
        ELSE [name |-> ErrorName, error |-> "Too many '_' in identifier"]

\* normalizeID on the characters of the lexeme: the name, and the message of
\* the error it pushes ("" when it pushes none).
normalizeName(chars) ==
    LET us == Underscores(chars)
        parts == Cardinality(us) + 1
    IN  IF parts = 1
        THEN IF Len(chars) = 1 \/ chars \in dontSubscriptIdentifiers
             THEN [name |-> chars, error |-> ""]
             ELSE [name |-> <<chars[1], "_">> \o SubSeq(chars, 2, Len(chars)),
                   error |-> ""]
        ELSE IF parts = 2
        THEN LET u == CHOOSE i \in us : TRUE
                 main == SubSeq(chars, 1, u - 1)
                 subscript == SubSeq(chars, u + 1, Len(chars))
             IN  IF Len(subscript) = 0
                 THEN [name |-> ErrorName, error |-> "Cannot end with '_'"]
                 ELSE IF \E i \in 1..Len(main) : main[i] \in DigitChars
                 THEN [name |-> ErrorName,
                       error |-> "Digits are not allowed before '_'"]
                 ELSE [name |-> main \o <<"_">> \o subscript, error |-> ""]
        ELSE [name |-> ErrorName, error |-> "Too many '_' in identifier"]

normalizeID(s, token) ==
    LET r == normalizeName(Chars(token.value))
    IN  [ps |-> IF r.error = "" THEN s ELSE pushErrorAt(s, r.error, token),
         name |-> r.name]

id(s, token) ==
    LET r == normalizeID(s, token)
    IN  Ok(r.ps, [type |-> "Identifier", name |-> r.name])

----------------------------------------------------------------------------
(* Comparisons, lines 431-444 and 994-996 *)

comparisonOps == {"<", ">", "<=", ">=", "="}

isComparison(node) ==
    \/ node.type = "DoubleInequality"
    \/ (node.type = "BinaryExpression" /\ node.op \in comparisonOps)
    \/ (node.type = "Identifier" /\ node.name = ElseName)

\* assertComparison that accepts every node
assertComparisonAcceptsAll(s, node) == Ok(s, node)

assertComparison(s, node) ==
    IF ~isComparison(node)
    THEN pushFatalErrorNode(s, "Condition must be a comparison")
    ELSE Ok(s, node)

\* relopDir that tells '=' from the inequalities but not '<' from '>'
relopDirNoSign(symbol) == IF symbol = "=" THEN 0 ELSE 1

relopDir(symbol) ==
    IF symbol = "=" THEN 0 ELSE IF symbol \in {"<", "<="} THEN 1 ELSE -1

----------------------------------------------------------------------------
(* Literals *)

\* JSON.parse of a string lexeme: the decoded text, or a SyntaxError when the
\* lexeme is no JSON string ("\q" is no JSON escape).
JSONParse(lexeme) ==
    CASE lexeme = "\"s\"" -> [ok |-> TRUE, value |-> "s"]
      [] OTHER -> [ok |-> FALSE, value |-> ""]

stringParselet(s, token) ==
    LET j == JSONParse(token.value)
    IN  IF j.ok THEN Ok(s, [type |-> "String", value |-> j.value]) ELSE Raise(s)

\* parseFloat of a number lexeme
parseFloat(lexeme) == IF lexeme = "2" THEN 2 ELSE 1

----------------------------------------------------------------------------
(* The Pratt dispatcher, lines 192-429 and 551-1042 *)

\* Own keys of consequentParselets whose value is a parselet.
ConsequentKeys ==
    {"+", "-", "*", "/", "^", "(", "'", "!", ".", "[",
     "<", "<=", "=", ">=", ">", "->", ",", "@{", "~", "#{", "with"}

\* consequentParselets is an object literal: a lookup by a lexeme that names a
\* property of Object.prototype yields that property, which is truthy and has
\* neither bindingPower nor parse.
InheritedKeys == {"constructor"}

\* consequentParselets[value]: "parselet", "inherited" or "undefined"
ConsequentLookup(value) ==
    IF value \in ConsequentKeys THEN "parselet"
    ELSE IF value \in InheritedKeys THEN "inherited"
    ELSE "undefined"

\* cp.bindingPower of the parselet of an own key
bindingPower(value) ==
    CASE value \in {"+", "-"} -> Power.add
      [] value \in {"*", "/"} -> Power.mul
      [] value = "^" -> minus1(Power.pow)
      [] value \in {"(", "'"} -> Power.call
      [] value = "!" -> Power.postfix
      [] value = "." -> Power.member
      [] value = "[" -> Power.access
      [] value \in {"<", "<=", "=", ">=", ">"} -> Power.rel
      [] value = "->" -> Power.updateRule
      [] value = "," -> Power.seq
      [] value \in {"@{", "#{"} -> Power.meta
      [] value = "~" -> Power.sim
      [] value = "with" -> Power.substitution

\* getInitialParselet: the name of the initial parselet of a token, "" if none
getInitialParselet(token) ==
    CASE token.type = "punct" /\ token.value \in {"(", "-", "[", "{", "@{"} ->
           token.value
      [] token.type = "number" -> "number"
      [] token.type = "id" -> "id"
      [] token.type = "string" -> "string"
      [] token.type = "keyword"
           /\ token.value \in {"sum", "product", "integral", "table", "folder",
                               "image", "settings", "ticker"} -> token.value
      [] OTHER -> ""

assertLeftIsExpression(s, node, posToken) ==
    IF ~isExpression(node)
    THEN pushFatalError(s, "Unexpected token. Did you mean to precede it by an expression?",
                        posToken)
    ELSE Ok(s, node)

exprToStatement(s, expr) ==
    IF expr.type = "String"
    THEN Ok(s, [type |-> "Text", text |-> expr.value, style |-> NoNode])
    ELSE IF /\ expr.type = "BinaryExpression"
            /\ expr.op = "="
            /\ expr.right.type = "BinaryExpression"
            /\ expr.right.op = "~"
    THEN IF expr.left.type # "Identifier"
         THEN pushFatalErrorNode(s, "Residual variable must be identifier")
         ELSE Ok(s, [type |-> "ExprStatement", expr |-> expr.right,
                     style |-> NoNode, parameters |-> NoNode,
                     residualVariable |-> expr.left])
    ELSE Ok(s, [type |-> "ExprStatement", expr |-> expr, style |-> NoNode,
                parameters |-> NoNode, residualVariable |-> NoNode])

finalizeStatement(s, expr) ==
    IF isStatement(expr) THEN Ok(s, expr)
    ELSE IF isExpression(expr) THEN exprToStatement(s, expr)
    ELSE pushFatalErrorNode(s, "I don't know how to finalize")

\* The test the maps of parseList, `with` and `#{` apply to an item.
IsAssignment(item) ==
    /\ item.type = "BinaryExpression"
    /\ item.op = "="
    /\ item.left.type = "Identifier"

RECURSIVE parseMain(_, _, _), parseMainLoop(_, _, _, _), parseExpr(_, _),
          initial(_, _, _), consequent(_, _, _, _), parseParen(_),
          parsePiecewise(_, _), repeatedOperatorParselet(_, _),
          parseTable(_), parseFolder(_), parsePrime(_, _, _),
          parseList(_), parseBareSeq(_), BareSeqLoop(_, _),
          parseStyleMapping(_, _), parseFunctionCall(_, _),
          compareOpParselet(_, _, _, _, _), binaryParselet(_, _, _, _, _),
          parseStatements(_, _, _), parseStatementsIter(_, _, _),
          TryStatement(_, _), parseRegression(_, _, _), parseWith(_, _, _)

parseMain(s, lastBindingPower, isStatementTop) ==
    Bind(consume(s, Undefined), LAMBDA firstToken :
    With(getInitialParselet(firstToken.node), LAMBDA name :
        IF name = ""
        THEN pushFatalError(firstToken.ps, "Unexpected text", firstToken.node)
        ELSE Bind(initial(name, firstToken.ps, firstToken.node),
                  LAMBDA leftNode :
                      parseMainLoop(leftNode.ps, leftNode.node,
                                    lastBindingPower, isStatementTop))))

\* The loop of parseMain, lines 206-216
parseMainLoop(s, leftNode, lastBindingPower, isStatementTop) ==
    With(peek(s), LAMBDA nextToken :
    With(ConsequentLookup(nextToken.tok.value), LAMBDA cp :
        IF cp = "undefined" THEN Ok(nextToken.ps, leftNode)
        ELSE IF cp = "inherited"
        THEN \* undefined <= lastBindingPower is false; cp.parse is no function
             Bind(consume(nextToken.ps, Undefined), LAMBDA c : Raise(c.ps))
        ELSE IF bindingPower(nextToken.tok.value) <= lastBindingPower
        THEN Ok(nextToken.ps, leftNode)
        ELSE Bind(consume(nextToken.ps, Undefined), LAMBDA c :
             Bind(consequent(c.ps, leftNode, nextToken.tok,
                             isStatementTop /\ nextToken.tok.value = "="),
                  LAMBDA r :
                      IF Remaining(r.ps) >= Remaining(s) THEN Diverge(r.ps)
                      ELSE parseMainLoop(r.ps, r.node, lastBindingPower,
                                         isStatementTop)))))

parseExpr(s, lastBindingPower) ==
    Bind(parseMain(s, lastBindingPower, FALSE), LAMBDA result :
        IF ~isExpression(result.node)
        THEN pushFatalErrorNode(result.ps, "Expected an expression")
        ELSE result)

\* initialParselets, lines 246-429
initial(name, s, token) ==
    CASE name = "(" -> parseParen(s)
      [] name = "-" ->
           Bind(parseExpr(s, Power.prefix), LAMBDA expr :
               Ok(expr.ps, [type |-> "PrefixExpression", op |-> "-",
                            expr |-> expr.node]))
      [] name = "[" -> parseList(s)
      [] name = "{" -> parsePiecewise(s, <<>>)
      [] name = "@{" -> parseStyleMapping(s, <<>>)
      [] name = "number" ->
           Ok(s, [type |-> "Number", value |-> parseFloat(token.value)])
      [] name = "id" -> id(s, token)
      [] name = "string" -> stringParselet(s, token)
      [] name \in {"sum", "product", "integral"} ->
           repeatedOperatorParselet(name, s)
      [] name = "table" -> parseTable(s)
      [] name = "folder" -> parseFolder(s)
      [] name = "image" ->
           Bind(consumeType(s, "string"), LAMBDA t :
           Bind(stringParselet(t.ps, t.node), LAMBDA n :
               Ok(n.ps, [type |-> "Image", name |-> n.node.value,
                         style |-> NoNode])))
      [] name = "settings" -> Ok(s, [type |-> "Settings", style |-> NoNode])
      [] name = "ticker" ->
           Bind(parseExpr(s, Power.meta), LAMBDA handler :
               Ok(handler.ps, [type |-> "Ticker", handler |-> handler.node,
                               style |-> NoNode]))

\* initialParselets.punct["("], lines 248-279
parseParen(s) ==
    With(peek(s), LAMBDA p :
        IF p.tok.value = "d/d"
        THEN Bind(consume(p.ps, Undefined), LAMBDA c1 :
             Bind(consumeType(c1.ps, "id"), LAMBDA c2 :
             Bind(id(c2.ps, c2.node), LAMBDA variable :
             Bind(consume(variable.ps, ")"), LAMBDA c3 :
             Bind(parseExpr(c3.ps, Power.derivative), LAMBDA expr :
                 Ok(expr.ps, [type |-> "DerivativeExpression",
                              expr |-> expr.node,
                              variable |-> variable.node]))))))
        ELSE Bind(parseMain(p.ps, Power.top, FALSE), LAMBDA inner :
             Bind(consume(inner.ps, ")"), LAMBDA closeParen :
                 IF inner.node.type = "SequenceExpression"
                 THEN Ok(closeParen.ps,
                         [inner.node EXCEPT !.parenWrapped = TRUE])
                 ELSE Ok(closeParen.ps, inner.node))))

\* A PiecewiseBranch node
Branch(condition, consequentExpr) ==
    [type |-> "PiecewiseBranch", condition |-> condition,
     consequent |-> consequentExpr]

\* initialParselets.punct["{"], lines 291-357: the loop, with the branches
\* pushed so far
parsePiecewise(s, branches) ==
    Bind(parseExpr(s, Power.seq), LAMBDA curr :
    Bind(consume(curr.ps, Undefined), LAMBDA next1 :
        IF next1.node.value = "}"
        THEN Bind(IF Len(branches) = 0
                  THEN assertComparison(next1.ps, curr.node)
                  ELSE Ok(next1.ps, curr.node),
                  LAMBDA a :
             With(Len(branches) = 0 \/ isComparison(curr.node), LAMBDA bool :
                 Ok(a.ps,
                    [type |-> "PiecewiseExpression",
                     branches |->
                         Append(branches,
                             Branch(IF bool THEN curr.node
                                    ELSE [type |-> "Identifier",
                                          name |-> ElseName],
                                    IF bool
                                    THEN [type |-> "Number", value |-> 1]
                                    ELSE curr.node))])))
        ELSE IF next1.node.value = ":"
        THEN Bind(parseExpr(next1.ps, Power.seq), LAMBDA consequentExpr :
             Bind(assertComparison(consequentExpr.ps, curr.node), LAMBDA a :
             Bind(consume(a.ps, Undefined), LAMBDA next2 :
                 IF next2.node.value = "}"
                 THEN Ok(next2.ps,
                         [type |-> "PiecewiseExpression",
                          branches |->
                              Append(branches,
                                     Branch(curr.node, consequentExpr.node))])
                 ELSE IF next2.node.value # ","
                 THEN pushFatalError(next2.ps,
                                     "Unexpected character in Piecewise",
                                     next2.node)
                 ELSE IF Remaining(next2.ps) >= Remaining(s)
                 THEN Diverge(next2.ps)
                 ELSE parsePiecewise(next2.ps,
                          Append(branches,
                                 Branch(curr.node, consequentExpr.node))))))
        ELSE IF next1.node.value = ","
        THEN Bind(assertComparison(next1.ps, curr.node), LAMBDA a :
                 IF Remaining(a.ps) >= Remaining(s) THEN Diverge(a.ps)
                 ELSE parsePiecewise(a.ps,
                          Append(branches,
                                 Branch(curr.node,
                                        [type |-> "Number", value |-> 1]))))
        ELSE pushFatalError(next1.ps, "Unexpected character in Piecewise",
                            next1.node)))

\* repeatedOperatorParselet, lines 551-574
repeatedOperatorParselet(name, s) ==
    Bind(consumeType(s, "id"), LAMBDA t :
    Bind(id(t.ps, t.node), LAMBDA index :
    Bind(consume(index.ps, "="), LAMBDA c1 :
    Bind(consume(c1.ps, "("), LAMBDA c2 :
    Bind(parseExpr(c2.ps, Power.top), LAMBDA start :
    Bind(consume(start.ps, "..."), LAMBDA c3 :
    Bind(parseExpr(c3.ps, Power.top), LAMBDA end :
    Bind(consume(end.ps, ")"), LAMBDA c4 :
    Bind(parseExpr(c4.ps, Power.add), LAMBDA expr :
        Ok(expr.ps, [type |-> "RepeatedExpression", name |-> name,
                     index |-> index.node, start |-> start.node,
                     end |-> end.node, expr |-> expr.node]))))))))))

RECURSIVE TableColumns(_, _)
\* The flatMap of lines 373-381: the ExprStatements of stmts, and one error
\* pushed for each other statement
TableColumns(s, stmts) ==
    IF stmts = <<>> THEN [ps |-> s, columns |-> <<>>]
    ELSE IF Head(stmts).type # "ExprStatement"
    THEN TableColumns([pushErrorNode(s, "Expected a valid table column")
                          EXCEPT !.dropped = @ + 1],
                      Tail(stmts))
    ELSE With(TableColumns(s, Tail(stmts)), LAMBDA r :
             [ps |-> r.ps, columns |-> <<Head(stmts)>> \o r.columns])

\* initialParselets.keyword.table, lines 371-389
parseTable(s) ==
    Bind(consume(s, "{"), LAMBDA c1 :
    Bind(parseStatements(c1.ps, <<>>, FALSE), LAMBDA stmts :
    With(TableColumns(stmts.ps, stmts.node), LAMBDA cols :
    Bind(consume(cols.ps, "}"), LAMBDA end :
        Ok(end.ps, [type |-> "Table", columns |-> cols.columns,
                    style |-> NoNode])))))

\* initialParselets.keyword.folder, lines 390-402
parseFolder(s) ==
    Bind(consumeType(s, "string"), LAMBDA t :
    Bind(stringParselet(t.ps, t.node), LAMBDA title :
    Bind(consume(title.ps, "{"), LAMBDA c1 :
    Bind(parseStatements(c1.ps, <<>>, FALSE), LAMBDA children :
    Bind(consume(children.ps, "}"), LAMBDA end :
        Ok(end.ps, [type |-> "Folder", children |-> children.node,
                    title |-> title.node.value, style |-> NoNode]))))))

\* parseBareSeq, lines 928-940
parseBareSeq(s) == BareSeqLoop(s, <<>>)

BareSeqLoop(s, items) ==
    With(peek(s), LAMBDA p :
        IF p.tok.value \in {"]", "..."} THEN Ok(p.ps, items)
        ELSE Bind(parseExpr(p.ps, Power.seq), LAMBDA item :
             With(peek(item.ps), LAMBDA next1 :
                 IF next1.tok.value # ","
                 THEN Ok(next1.ps, Append(items, item.node))
                 ELSE Bind(consume(next1.ps, Undefined), LAMBDA c :
                          IF Remaining(c.ps) >= Remaining(s)
                          THEN Diverge(c.ps)
                          ELSE BareSeqLoop(c.ps, Append(items, item.node))))))

RECURSIVE Assignments(_)
\* The map of lines 815-833 and 749-767 over items that all pass its test
Assignments(items) ==
    IF items = <<>> THEN <<>>
    ELSE <<[type |-> "AssignmentExpression", variable |-> Head(items).left,
            expr |-> Head(items).right]>> \o Assignments(Tail(items))

\* parseList, lines 790-844
parseList(s) ==
    Bind(parseBareSeq(s), LAMBDA startValues :
    Bind(consume(startValues.ps, Undefined), LAMBDA next1 :
        IF next1.node.value = "..."
        THEN With(peek(next1.ps), LAMBDA p :
             Bind(IF p.tok.value = "," THEN consume(p.ps, Undefined)
                  ELSE Ok(p.ps, p.tok),
                  LAMBDA c :
             Bind(parseBareSeq(c.ps), LAMBDA endValues :
             Bind(consume(endValues.ps, "]"), LAMBDA t :
                 Ok(t.ps, [type |-> "RangeExpression",
                           startValues |-> startValues.node,
                           endValues |-> endValues.node])))))
        ELSE IF next1.node.value = "]"
        THEN Ok(next1.ps, [type |-> "ListExpression",
                           values |-> startValues.node])
        ELSE IF next1.node.type = "keyword" /\ next1.node.value = "for"
        THEN IF Len(startValues.node) # 1
             THEN pushFatalError(next1.ps,
                                 "Expected exactly one expression before 'for'",
                                 next1.node)
             ELSE Bind(parseBareSeq(next1.ps), LAMBDA items :
                      IF \E i \in 1..Len(items.node) :
                             ~IsAssignment(items.node[i])
                      THEN pushFatalErrorNode(items.ps,
                               "List comprehension must set variable = identifier")
                      ELSE Bind(consume(items.ps, "]"), LAMBDA t :
                               Ok(t.ps, [type |-> "ListComprehension",
                                         expr |-> startValues.node[1],
                                         assignments |->
                                             Assignments(items.node)])))
        ELSE pushFatalError(next1.ps, "Expected ']'", next1.node)))

\* parseStyleMapping, lines 847-875: the loop, with the entries pushed so far
parseStyleMapping(s, entries) ==
    With(peek(s), LAMBDA p :
        IF p.tok.value = "}"
        THEN Bind(consume(p.ps, Undefined), LAMBDA close :
                 Ok(close.ps, [type |-> "StyleMapping", entries |-> entries]))
        ELSE Bind(consumeType(p.ps, "id"), LAMBDA key :
             Bind(consume(key.ps, ":"), LAMBDA c :
             Bind(parseMain(c.ps, Power.seq, FALSE), LAMBDA expr :
                 IF ~isExpression(expr.node) /\ expr.node.type # "StyleMapping"
                 THEN pushFatalErrorNode(expr.ps,
                                         "Expected value on the right of ':'")
                 ELSE With(peek(expr.ps), LAMBDA p2 :
                      Bind(IF p2.tok.value # "}" THEN consume(p2.ps, ",")
                           ELSE Ok(p2.ps, p2.tok),
                           LAMBDA sep :
                          IF Remaining(sep.ps) >= Remaining(s)
                          THEN Diverge(sep.ps)
                          ELSE parseStyleMapping(sep.ps,
                                   Append(entries,
                                       [type |-> "MappingEntry",
                                        property |->
                                            [type |-> "String",
                                             value |-> key.node.value],
                                        expr |-> expr.node]))))))))

\* parseFunctionCall, lines 943-954
parseFunctionCall(s, left) ==
    With(peek(s), LAMBDA p :
    Bind(IF p.tok.value = ")" THEN Ok(p.ps, <<>>) ELSE parseBareSeq(p.ps),
         LAMBDA args :
    Bind(consume(args.ps, ")"), LAMBDA next1 :
        IF left.type \notin {"Identifier", "MemberExpression"}
        THEN pushFatalErrorNode(next1.ps, "Function call must be an identifier")
        ELSE Ok(next1.ps, [type |-> "CallExpression", callee |-> left,
                           arguments |-> args.node]))))

\* consequentParselets["'"], lines 587-609: the loop, with the order so far
parsePrime(s, left, order) ==
    Bind(consume(s, Undefined), LAMBDA next1 :
        IF next1.node.value = "'"
        THEN IF Remaining(next1.ps) >= Remaining(s) THEN Diverge(next1.ps)
             ELSE parsePrime(next1.ps, left, order + 1)
        ELSE IF next1.node.value = "("
        THEN Bind(parseFunctionCall(next1.ps, left), LAMBDA expr :
                 Ok(expr.ps, [type |-> "PrimeExpression",
                              expr |-> expr.node, order |-> order]))
        ELSE pushFatalError(next1.ps, "Expected '('", next1.node))

\* binaryParselet, lines 1016-1029
binaryParselet(bp, op, s, left, token) ==
    Bind(assertLeftIsExpression(s, left, token), LAMBDA a :
    Bind(parseExpr(a.ps, bp), LAMBDA right :
        Ok(right.ps, [type |-> "BinaryExpression", op |-> op,
                      left |-> left, right |-> right.node])))

\* compareOpParselet, lines 956-992
compareOpParselet(symbol, s, left, token, topLevelEq) ==
    Bind(assertLeftIsExpression(s, left, token), LAMBDA a :
    Bind(parseExpr(a.ps, IF topLevelEq THEN minus1(Power.seq) ELSE Power.rel),
         LAMBDA right1 :
    With(peek(right1.ps), LAMBDA p :
        IF p.tok.value \notin {"<", "<=", ">=", ">"}
        THEN Ok(p.ps, [type |-> "BinaryExpression", op |-> symbol,
                       left |-> left, right |-> right1.node])
        ELSE Bind(consume(p.ps, Undefined), LAMBDA right :
                 IF relopDir(right.node.value) # relopDir(symbol)
                 THEN pushFatalError(right.ps, "Cannot chain", right.node)
                 ELSE Bind(parseExpr(right.ps, Power.rel), LAMBDA right2 :
                          Ok(right2.ps,
                             [type |-> "DoubleInequality", left |-> left,
                              leftOp |-> symbol, middle |-> right1.node,
                              rightOp |-> right.node.value,
                              right |-> right2.node]))))))

RECURSIVE RegressionEntries(_)
\* The map of lines 719-735 over items that all pass its test
RegressionEntries(items) ==
    IF items = <<>> THEN <<>>
    ELSE <<[type |-> "RegressionEntry", variable |-> Head(items).left,
            value |-> Head(items).right]>> \o RegressionEntries(Tail(items))

\* consequentParselets["#{"], lines 706-746
parseRegression(s, left0, token) ==
    Bind(IF ~isStatement(left0) THEN finalizeStatement(s, left0)
         ELSE Ok(s, left0),
         LAMBDA left :
        IF \/ left.node.type # "ExprStatement"
           \/ left.node.expr.type # "BinaryExpression"
           \/ left.node.expr.op # "~"
        THEN pushFatalError(left.ps,
                 "Regression Parameters '#{' must be preceded by a regression",
                 token)
        ELSE Bind(parseBareSeq(left.ps), LAMBDA seq :
             Bind(consume(seq.ps, "}"), LAMBDA end :
                 IF \E i \in 1..Len(seq.node) : ~IsAssignment(seq.node[i])
                 THEN pushFatalErrorNode(end.ps,
                          "Regression mapping entry must be of the form 'name = 123'")
                 ELSE Ok(end.ps,
                         [left.node EXCEPT !.parameters =
                             [type |-> "RegressionParameters",
                              entries |-> RegressionEntries(seq.node)]]))))

\* consequentParselets.with, lines 747-774
parseWith(s, left, token) ==
    Bind(assertLeftIsExpression(s, left, token), LAMBDA a :
    Bind(parseBareSeq(a.ps), LAMBDA items :
        IF \E i \in 1..Len(items.node) : ~IsAssignment(items.node[i])
        THEN pushFatalErrorNode(items.ps,
                 "List comprehension must set variable = identifier")
        ELSE Ok(items.ps, [type |-> "Substitution", body |-> left,
                           assignments |-> Assignments(items.node)])))

\* consequentParselets[token.value].parse, lines 576-782
consequent(s, left, token, topLevelEq) ==
    CASE token.value \in {"+", "-", "*", "/", "^"} ->
           binaryParselet(bindingPower(token.value), token.value, s, left,
                          token)
      [] token.value = "(" -> parseFunctionCall(s, left)
      [] token.value = "'" ->
           IF left.type # "Identifier"
           THEN pushFatalErrorNode(s,
                    "Cannot use prime notation on a non-identifier")
           ELSE parsePrime(s, left, 1)
      [] token.value = "!" ->
           Bind(assertLeftIsExpression(s, left, token), LAMBDA a :
               Ok(a.ps, [type |-> "PostfixExpression", op |-> "factorial",
                         expr |-> left]))
      [] token.value = "." ->
           Bind(assertLeftIsExpression(s, left, token), LAMBDA a :
           Bind(parseMain(a.ps, Power.member, FALSE), LAMBDA right :
               IF right.node.type # "Identifier"
               THEN pushFatalError(right.ps,
                        "Member access name must be an identifier", token)
               ELSE Ok(right.ps, [type |-> "MemberExpression",
                                  object |-> left,
                                  property |-> right.node])))
      [] token.value = "[" ->
           Bind(assertLeftIsExpression(s, left, token), LAMBDA a :
           Bind(parseList(a.ps), LAMBDA right :
               Ok(right.ps,
                  [type |-> "ListAccessExpression", expr |-> left,
                   index |-> IF /\ right.node.type = "ListExpression"
                                /\ Len(right.node.values) = 1
                             THEN right.node.values[1]
                             ELSE right.node])))
      [] token.value \in {"<", "<=", "=", ">=", ">"} ->
           compareOpParselet(token.value, s, left, token, topLevelEq)
      [] token.value = "->" ->
           IF left.type # "Identifier"
           THEN pushFatalErrorNode(s,
                    "Left side of update rule must be Identifier")
           ELSE Bind(parseExpr(s, Power.updateRule), LAMBDA right :
                    Ok(right.ps, [type |-> "UpdateRule", variable |-> left,
                                  expr |-> right.node]))
      [] token.value = "," ->
           Bind(assertLeftIsExpression(s, left, token), LAMBDA a :
           With(peek(a.ps), LAMBDA p :
               IF p.tok.value = "..." THEN Ok(p.ps, left)
               ELSE Bind(parseExpr(p.ps, minus1(Power.seq)), LAMBDA right :
                        Ok(right.ps, [type |-> "SequenceExpression",
                                      left |-> left, right |-> right.node,
                                      parenWrapped |-> FALSE]))))
      [] token.value = "@{" ->
           Bind(finalizeStatement(s, left), LAMBDA stmt :
           Bind(parseStyleMapping(stmt.ps, <<>>), LAMBDA style :
               Ok(style.ps, [stmt.node EXCEPT !.style = style.node])))
      [] token.value = "~" ->
           Bind(assertLeftIsExpression(s, left, token), LAMBDA a :
           Bind(parseExpr(a.ps, Power.sim), LAMBDA right :
               Ok(right.ps, [type |-> "BinaryExpression", op |-> "~",
                             left |-> left, right |-> right.node])))
      [] token.value = "#{" -> parseRegression(s, left, token)
      [] token.value = "with" -> parseWith(s, left, token)

----------------------------------------------------------------------------
(* The statement loop, lines 512-541 *)

RECURSIVE SkipSemis(_)
\* lines 516-520: peek, and consume while the lookahead is a semi
SkipSemis(s) ==
    With(peek(s), LAMBDA p :
        IF p.tok.type = "semi"
        THEN SkipSemis(consume(p.ps, Undefined).ps)
        ELSE p)

\* The try block, lines 528-532
TryStatement(s, o) ==
    With(parseMain(s, Power.top, TRUE), LAMBDA stmt :
        IF Failed(stmt)
        THEN [ps |-> stmt.ps, out |-> o, exc |-> stmt.exc, returned |-> FALSE]
        ELSE With(finalizeStatement(stmt.ps, stmt.node), LAMBDA f :
            IF Failed(f)
            THEN [ps |-> f.ps, out |-> o, exc |-> f.exc, returned |-> FALSE]
            ELSE With(peek(f.ps), LAMBDA p :
                IF p.tok.value = "}" \/ p.tok.type = "eof"
                THEN [ps |-> p.ps, out |-> Append(o, f.node), exc |-> "none",
                      returned |-> TRUE]
                ELSE With(consumeType(p.ps, "semi"), LAMBDA c :
                         [ps |-> c.ps, out |-> Append(o, f.node),
                          exc |-> c.exc, returned |-> FALSE]))))

\* The catch block, lines 533-539: scanToNextStatement, and the entry of the
\* history: where the ParseError was thrown and where the loop resumes.
Recover(s, isTop) ==
    With(scanToNextStatement(s), LAMBDA s1 :
        [s1 EXCEPT !.recoveries =
            Append(@, [err |-> s.pos, from |-> Consumed(s),
                       to |-> Consumed(s1), top |-> isTop])])

\* One iteration of the while loop of parseStatements, lines 516-539
parseStatementsIter(s, o, isTop) ==
    With(SkipSemis(s), LAMBDA next1 :
        IF isTop /\ next1.tok.value = "}"
        THEN With(consume(pushErrorAt(next1.ps, "Unexpected '}'", next1.tok),
                          Undefined),
                  LAMBDA c :
                      [ps |-> c.ps, out |-> o, exc |-> c.exc,
                       returned |-> FALSE, how |-> "brace"])
        ELSE IF next1.tok.value = "}" \/ next1.tok.type = "eof"
        THEN [ps |-> next1.ps, out |-> o, exc |-> "none", returned |-> TRUE,
              how |-> "return"]
        ELSE With(TryStatement(next1.ps, o), LAMBDA t :
                 IF t.exc = "ParseError"
                 THEN [ps |-> Recover(t.ps, isTop), out |-> t.out,
                       exc |-> "none", returned |-> FALSE, how |-> "catch"]
                 ELSE [ps |-> t.ps, out |-> t.out, exc |-> t.exc,
                       returned |-> t.returned, how |-> "statement"]))

\* parseStatements, lines 513-541, from the statements pushed so far
parseStatements(s, o, isTop) ==
    With(parseStatementsIter(s, o, isTop), LAMBDA it :
        IF it.exc # "none" THEN [ps |-> it.ps, node |-> NoNode, exc |-> it.exc]
        ELSE IF it.returned THEN Ok(it.ps, it.out)
        ELSE IF Remaining(it.ps) >= Remaining(s) THEN Diverge(it.ps)
        ELSE parseStatements(it.ps, it.out, isTop))

----------------------------------------------------------------------------
(* parse, lines 172-189, as a state machine: one step for each iteration of
   the loop of parseStatements(ps, {isTop: true}), one for the rest of parse *)

\* No call of consume or consumeType made on its own
NoCall == [op |-> "", expected |-> "", exc |-> "", tok |-> NoToken]

\* The token sequences of at most n tokens over an alphabet of lexemes
Inputs(alphabet, n) == UNION {[1..k -> alphabet] : k \in 0..n}

InitWith(inputs) ==
    /\ input \in inputs
    /\ ps = NewParseState
    /\ out = <<>>
    /\ pc = "loop"
    /\ last = ""
    /\ idIn = <<>>
    /\ idOut = [name |-> <<>>, error |-> ""]
    /\ ret = NoCall

\* One iteration of the top-level statement loop.  An exception that is no
\* ParseError leaves parse (pc = "raised").
ParseStatementsTop ==
    /\ pc = "loop"
    /\ \E it \in {parseStatementsIter(ps, out, TRUE)} :
           /\ ps' = it.ps
           /\ out' = it.out
           /\ last' = it.how
           /\ pc' = CASE it.exc = "Error" -> "raised"
                      [] it.exc = "Diverge" -> "diverged"
                      [] it.returned -> "end"
                      [] Remaining(it.ps) >= Remaining(ps) -> "diverged"
                      [] OTHER -> "loop"
    /\ UNCHANGED <<input, idIn, idOut, ret>>

\* The rest of parse with a warning that looks at the statements only
ParseEndWarnsWithoutStatements ==
    /\ pc = "end"
    /\ LET s1 == IF Len(out) = 0
                THEN pushWarning(ps, "Program is empty. Try typing: y=x", 0, 0)
                ELSE ps
           p == peek(s1)
       IN  ps' = IF p.tok.type # "eof"
                 THEN pushErrorAt(p.ps, "Didn't reach end", p.tok)
                 ELSE p.ps
    /\ pc' = "done"
    /\ last' = "end"
    /\ UNCHANGED <<input, out, idIn, idOut, ret>>

\* Lines 175-188: the warning of an empty program, the check that the
\* lookahead is eof, and the Program, whose children are `out`.
ParseEnd ==
    /\ pc = "end"
    /\ LET s1 == IF Len(out) = 0 /\ Len(ps.diagnostics) = 0
                THEN pushWarning(ps, "Program is empty. Try typing: y=x", 0, 0)
                ELSE ps
           p == peek(s1)
       IN  ps' = IF p.tok.type # "eof"
                 THEN pushErrorAt(p.ps, "Didn't reach end", p.tok)
                 ELSE p.ps
    /\ pc' = "done"
    /\ last' = "end"
    /\ UNCHANGED <<input, out, idIn, idOut, ret>>

Next == ParseStatementsTop \/ ParseEnd

GeneralAlphabet ==
    {"x", "1", "=", ";", "}", "[", "]", ")", "for", "#", "\"\\q\"",
     "constructor"}

Init == InitWith(Inputs(GeneralAlphabet, MaxLen))

Spec == Init /\ [][Next]_vars

----------------------------------------------------------------------------
(* normalizeID alone, on every lexeme of the id rule up to a length *)

Letters == {"d", "t"}
IdChars == Letters \cup {"1", "_"}

\* The lexemes matching [a-zA-Z][a-zA-Z0-9_]* over IdChars
IdLexemeInputs ==
    {w \in Inputs(IdChars, MaxIdLen) : Len(w) >= 1 /\ w[1] \in Letters}

InitId ==
    /\ idIn \in IdLexemeInputs
    /\ idOut = [name |-> <<>>, error |-> ""]
    /\ ret = NoCall
    /\ pc = "id"
    /\ input = <<>>
    /\ ps = NewParseState
    /\ out = <<>>
    /\ last = ""

\* normalizeID(ps, token) for the id token whose lexeme is idIn
NormalizeID ==
    /\ pc = "id"
    /\ LET r == normalizeName(idIn)
       IN  /\ idOut' = r
           /\ ps' = IF r.error = "" THEN ps
                     ELSE pushError(ps, r.error, 0, Len(idIn))
    /\ pc' = "idDone"
    /\ UNCHANGED <<input, out, last, idIn, ret>>

NextId == NormalizeID

SpecId == InitId /\ [][NextId]_vars

----------------------------------------------------------------------------
(* The nodes of a Program *)

Opt(node) == IF node.type = "null" THEN <<>> ELSE <<node>>

\* The child nodes of a TextAST node
Kids(n) ==
    CASE n.type = "ExprStatement" ->
           <<n.expr>> \o Opt(n.style) \o Opt(n.parameters)
               \o Opt(n.residualVariable)
      [] n.type \in {"Text", "Image", "Settings"} -> Opt(n.style)
      [] n.type = "Table" -> n.columns \o Opt(n.style)
      [] n.type = "Folder" -> n.children \o Opt(n.style)
      [] n.type = "Ticker" -> <<n.handler>> \o Opt(n.style)
      [] n.type \in {"PrefixExpression", "PostfixExpression",
                     "PrimeExpression"} -> <<n.expr>>
      [] n.type \in {"BinaryExpression", "SequenceExpression"} ->
           <<n.left, n.right>>
      [] n.type = "DoubleInequality" -> <<n.left, n.middle, n.right>>
      [] n.type = "RangeExpression" -> n.startValues \o n.endValues
      [] n.type = "ListExpression" -> n.values
      [] n.type = "ListComprehension" -> <<n.expr>> \o n.assignments
      [] n.type = "ListAccessExpression" -> <<n.expr, n.index>>
      [] n.type = "MemberExpression" -> <<n.object, n.property>>
      [] n.type = "CallExpression" -> <<n.callee>> \o n.arguments
      [] n.type = "DerivativeExpression" -> <<n.expr, n.variable>>
      [] n.type = "RepeatedExpression" -> <<n.index, n.start, n.end, n.expr>>
      [] n.type = "PiecewiseExpression" -> n.branches
      [] n.type = "PiecewiseBranch" -> <<n.condition, n.consequent>>
      [] n.type \in {"UpdateRule", "AssignmentExpression"} ->
           <<n.variable, n.expr>>
      [] n.type = "Substitution" -> <<n.body>> \o n.assignments
      [] n.type = "StyleMapping" -> n.entries
      [] n.type = "MappingEntry" -> <<n.property, n.expr>>
      [] n.type = "RegressionParameters" -> n.entries
      [] n.type = "RegressionEntry" -> <<n.variable, n.value>>
      [] OTHER -> <<>>

RECURSIVE Nodes(_), NodesOfSeq(_)
\* A node and all its descendants
Nodes(n) == <<n>> \o NodesOfSeq(Kids(n))

NodesOfSeq(ns) ==
    IF Len(ns) = 0 THEN <<>> ELSE Nodes(Head(ns)) \o NodesOfSeq(Tail(ns))

\* Every node of the Program under construction (its children are `out`)
ProgramNodes == NodesOfSeq(out)

HasDiagnostic(message) ==
    \E i \in 1..Len(ps.diagnostics) : ps.diagnostics[i].message = message

----------------------------------------------------------------------------
(* Specifications of the claims: the same parse, over the inputs that make
   the case of the claim happen *)

MaxLoopLen == 5     \* tokens in an input of SpecLoops
MaxPowLen == 5      \* tokens in an input of SpecPow

\* Inputs that run each loop of the parser: the statement loop and the
\* skipping of consume, piecewise branches, style-mapping entries, primes and
\* bare sequences.
LoopInputs ==
    Inputs({"x", ";", "}", "(", ")", "]"}, MaxLoopLen)
        \cup Inputs({"{", "}", "else", ",", ":", ";"}, MaxLoopLen)
        \cup Inputs({"@{", "}", "x", ",", ":", ";"}, MaxLoopLen)
        \cup Inputs({"[", "]", "x", ",", "'", "("}, MaxLoopLen)

SpecLoops == InitWith(LoopInputs) /\ [][Next]_vars

SpecPow == InitWith(Inputs({"x", "y", "1", "^"}, MaxPowLen)) /\ [][Next]_vars

----------------------------------------------------------------------------
(* C1 *)

\* C1: parse never propagates an exception to its caller: no parse ends with
\* an exception that is no ParseError leaving parseStatements.
C1_ParseNeverRaises == pc # "raised"

----------------------------------------------------------------------------
(* C2 *)

\* C2: parse terminates: no iteration of the statement loop, and no iteration
\* of an inner loop (the skipping of consume and consumeType, piecewise
\* branches, style-mapping entries, primes, parseBareSeq, the loop of
\* parseMain), goes on to the next iteration without having consumed a token.
C2_LoopsConsume == pc # "diverged"

\* The statement loop goes on after a catch that followed the skipping of a
\* token by consume or consumeType.
C2_Witness ==
    /\ pc = "loop"
    /\ last = "catch"
    /\ HasDiagnostic("Expected value. Skipping it.")
    /\ Len(out) > 0

----------------------------------------------------------------------------
(* C3 *)

RECURSIVE BoundaryFrom(_, _, _)
\* The last index recovery may discard when the error is at index i: the
\* first semi at or after i, the token before the '}' that closes the
\* enclosing block (nested loops only), or the end of the input.
BoundaryFrom(i, depth, top) ==
    IF i > Len(input) THEN Len(input)
    ELSE IF i < 1 THEN BoundaryFrom(1, depth, top)
    ELSE IF TypeOf(input[i]) = "semi" THEN i
    ELSE IF input[i] = "}" /\ depth = 0 /\ ~top THEN i - 1
    ELSE IF input[i] \in {"{", "@{", "#{"} THEN BoundaryFrom(i + 1, depth + 1, top)
    ELSE IF input[i] = "}" /\ depth > 0 THEN BoundaryFrom(i + 1, depth - 1, top)
    ELSE BoundaryFrom(i + 1, depth, top)

\* C3: a fatal parse error is local to one statement: every recovery resumes
\* the statement loop at the first statement boundary at or after the error,
\* so it discards no token beyond that boundary.
C3_FatalIsLocal ==
    \A i \in 1..Len(ps.recoveries) :
        LET r == ps.recoveries[i]
            b == BoundaryFrom(r.err, 0, r.top)
        IN  r.to <= (IF b > r.from THEN b ELSE r.from)

----------------------------------------------------------------------------
(* C4 *)

\* C4: the top-level statement loop returns only when the lookahead is eof,
\* and parse never emits "Didn't reach end".
C4_TopLoopReturnsAtEof ==
    /\ pc = "end" => peek(ps).tok.type = "eof"
    /\ ~HasDiagnostic("Didn't reach end")

----------------------------------------------------------------------------
(* C5 *)

AtomLexemes == {"x", "y", "1"}

\* The node an operand lexeme parses to
Atom(lexeme) ==
    IF lexeme \in NumberLexemes
    THEN [type |-> "Number", value |-> parseFloat(lexeme)]
    ELSE [type |-> "Identifier", name |-> Chars(lexeme)]

Pow(a, b) ==
    [type |-> "BinaryExpression", op |-> "^", left |-> a, right |-> b]

\* C5: '^' is right-associative: a ^ b ^ c parses to
\* BinaryExpression(^, a, BinaryExpression(^, b, c)).
C5_PowRightAssociative ==
    (/\ pc = "done"
     /\ Len(input) = 5
     /\ input[2] = "^" /\ input[4] = "^"
     /\ \A i \in {1, 3, 5} : input[i] \in AtomLexemes)
    => /\ Len(out) = 1
       /\ out[1].type = "ExprStatement"
       /\ out[1].expr.type = "BinaryExpression"
       /\ out[1].expr.left = Atom(input[1])
       /\ out[1].expr.right = Pow(Atom(input[3]), Atom(input[5]))

----------------------------------------------------------------------------
(* C6 *)

MaxCmpLen == 7      \* tokens in a chain of comparisons of SpecCmp
MaxNestLen == 5     \* tokens in a parenthesised input of SpecCmp

SpecCmp ==
    InitWith(Inputs({"x", "=", "<", ">"}, MaxCmpLen)
                 \cup Inputs({"x", "=", "<", ">=", "(", ")"}, MaxNestLen))
        /\ [][Next]_vars

SameDirection(leftOp, rightOp) ==
    \/ {leftOp, rightOp} \subseteq {"<", "<="}
    \/ {leftOp, rightOp} \subseteq {">", ">="}

\* C6: in every DoubleInequality node of the Program, leftOp and rightOp
\* point in the same direction, and neither is '='.
C6_DoubleInequalityDirection ==
    LET ns == ProgramNodes
    IN  \A i \in 1..Len(ns) :
            ns[i].type = "DoubleInequality"
                => SameDirection(ns[i].leftOp, ns[i].rightOp)

\* A parse returned a DoubleInequality that is the right operand of a
\* top-level '='.
C6_Witness ==
    /\ pc = "done"
    /\ Len(out) = 1
    /\ out[1].type = "ExprStatement"
    /\ out[1].expr.type = "BinaryExpression"
    /\ out[1].expr.op = "="
    /\ out[1].expr.right.type = "DoubleInequality"

----------------------------------------------------------------------------
(* C7 *)

MaxPieceLen == 6    \* tokens after the '{' in an input of SpecPiecewise

SpecPiecewise ==
    InitWith({<<"{">> \o w :
                 w \in Inputs({"}", "x", "<", ",", ":", "else"}, MaxPieceLen)})
        /\ [][Next]_vars

IsComparisonNode(node) ==
    \/ node.type = "DoubleInequality"
    \/ (node.type = "BinaryExpression"
        /\ node.op \in {"<", "<=", "=", ">=", ">"})
    \/ (node.type = "Identifier" /\ node.name = <<"e", "l", "s", "e">>)

\* C7: the condition of every PiecewiseBranch of the Program is a comparison
\* or the Identifier 'else'; '{ x }' is fatal and yields no node; in
\* '{ x < x , x }' the last branch has condition 'else' and consequent x.
C7_PiecewiseConditions ==
    /\ LET ns == ProgramNodes
       IN  \A i \in 1..Len(ns) :
               ns[i].type = "PiecewiseBranch"
                   => IsComparisonNode(ns[i].condition)
    /\ (pc = "done" /\ input = <<"{", "x", "}">>)
           => (out = <<>> /\ HasDiagnostic("Condition must be a comparison"))
    /\ (pc = "done" /\ input = <<"{", "x", "<", "x", ",", "x", "}">>)
           => /\ Len(out) = 1
              /\ out[1].expr.type = "PiecewiseExpression"
              /\ Len(out[1].expr.branches) = 2
              /\ out[1].expr.branches[2].condition =
                     [type |-> "Identifier", name |-> <<"e", "l", "s", "e">>]
              /\ out[1].expr.branches[2].consequent =
                     [type |-> "Identifier", name |-> <<"x">>]

\* A parse returned a piecewise whose last branch is a non-comparison closed
\* by '}', turned into an 'else' branch.
C7_Witness ==
    /\ pc = "done"
    /\ input = <<"{", "x", "<", "x", ",", "x", "}">>
    /\ Len(out) = 1
    /\ out[1].expr.type = "PiecewiseExpression"

----------------------------------------------------------------------------
(* C8 *)

\* C8: every ListComprehension node of the Program has a non-empty
\* assignments list.
C8_ComprehensionHasAssignments ==
    LET ns == ProgramNodes
    IN  \A i \in 1..Len(ns) :
            ns[i].type = "ListComprehension" => Len(ns[i].assignments) > 0

----------------------------------------------------------------------------
(* C9 *)

\* C9: the name normalizeID produces has at most one '_', does not end in
\* '_' and has no digit before the '_'; a member of the non-subscripting set
\* is returned verbatim; every other lexeme without '_' of length >= 2
\* becomes firstChar + '_' + rest.
C9_NormalizedName ==
    pc = "idDone" =>
        LET name == idOut.name
        IN  /\ Cardinality({i \in 1..Len(name) : name[i] = "_"}) <= 1
            /\ Len(name) >= 1
            /\ name[Len(name)] # "_"
            /\ \A i \in 1..Len(name) : \A j \in 1..Len(name) :
                   (name[i] = "_" /\ j < i) => name[j] \notin DigitChars
            /\ idIn \in dontSubscriptIdentifiers => name = idIn
            /\ (/\ idIn \notin dontSubscriptIdentifiers
                /\ Len(idIn) >= 2
                /\ \A i \in 1..Len(idIn) : idIn[i] # "_")
                   => name = <<idIn[1], "_">> \o SubSeq(idIn, 2, Len(idIn))

\* normalizeID was given a lexeme with a digit before its '_' and produced
\* the name "error".
C9_Witness ==
    /\ pc = "idDone"
    /\ idIn = <<"d", "1", "_", "t">>
    /\ idOut.name = <<"e", "r", "r", "o", "r">>

----------------------------------------------------------------------------
(* C10 *)

MaxInvalidLen == 4  \* tokens in an input of SpecInvalid

\* Inputs with invalid characters, before and after a fatal error
SpecInvalid ==
    InitWith(Inputs({"x", ";", ")", "#", " "}, MaxInvalidLen)) /\ [][Next]_vars

RECURSIVE CountInvalid(_)
\* The number of tokens of kind 'invalid' among the first n of the input
CountInvalid(n) ==
    IF n = 0 THEN 0
    ELSE CountInvalid(n - 1) + (IF TypeOf(input[n]) = "invalid" THEN 1 ELSE 0)

InvalidCharacterErrors ==
    Cardinality({i \in 1..Len(ps.diagnostics) :
                    ps.diagnostics[i].message = "Invalid character"})

\* C10: when parse returns, the number of 'Invalid character' diagnostics
\* equals the number of invalid tokens of the input.
C10_OneErrorPerInvalid ==
    pc = "done" => InvalidCharacterErrors = CountInvalid(Len(input))

----------------------------------------------------------------------------
(* C11 *)

MaxEmptyLen == 4    \* tokens in an input of SpecEmpty

\* Inputs of spaces, comments, semis, invalid characters, '}' and statements
SpecEmpty ==
    InitWith(Inputs({"x", ";", " ", "//c", "#", "}"}, MaxEmptyLen))
        /\ [][Next]_vars

EmptyWarning ==
    [severity |-> "warning", message |-> "Program is empty. Try typing: y=x",
     from |-> 0, to |-> 0]

\* The diagnostics the statement loop produced: all but those of parse itself
LoopDiagnostics ==
    SelectSeq(ps.diagnostics,
              LAMBDA d : d.message \notin {EmptyWarning.message,
                                           "Didn't reach end"})

\* C11: when parse returns, the diagnostics hold the warning 'Program is
\* empty. Try typing: y=x', once and with span {0,0}, if and only if the
\* statement loop produced no statement and no diagnostic; an input of only
\* whitespace and comments (the empty input included) yields exactly that one
\* diagnostic and a Program with no children.
C11_EmptyProgramWarning ==
    pc = "done" =>
        /\ (\E i \in 1..Len(ps.diagnostics) :
                ps.diagnostics[i].message = EmptyWarning.message)
               <=> (Len(out) = 0 /\ Len(LoopDiagnostics) = 0)
        /\ \A i \in 1..Len(ps.diagnostics) :
               ps.diagnostics[i].message = EmptyWarning.message
                   => (ps.diagnostics[i] = EmptyWarning /\ i = 1)
        /\ (\A i \in 1..Len(input) : TypeOf(input[i]) \in {"space", "comment"})
               => (ps.diagnostics = <<EmptyWarning>> /\ out = <<>>)

\* parse returned for an input of a space and a comment, with the warning.
C11_Witness ==
    /\ pc = "done"
    /\ input = <<" ", "//c">>
    /\ ps.diagnostics = <<EmptyWarning>>

----------------------------------------------------------------------------
(* C12 *)

MaxBlockLen == 6    \* tokens after the '{' in an input of SpecBlocks

\* Inputs that open a table or a folder, followed by statements, semis, '}',
\* a token no statement starts with, and nested tables
SpecBlocks ==
    InitWith({prefix \o w :
                 prefix \in {<<"table", "{">>, <<"folder", "\"s\"", "{">>},
                 w \in Inputs({"x", ";", "}", ")", "table", "{"}, MaxBlockLen)})
        /\ [][Next]_vars

\* C12: if parse returns an empty diagnostics list, the input was parsed
\* without recovery: no ParseError reached a catch block (so
\* scanToNextStatement never ran), consume and consumeType skipped no token,
\* no table column was dropped, every token of the input was taken from the
\* lexer and the lookahead is eof.
C12_NoDiagnosticsNoRecovery ==
    (pc = "done" /\ ps.diagnostics = <<>>)
        => /\ ps.recoveries = <<>>
           /\ ps.skipped = 0
           /\ ps.dropped = 0
           /\ ps.pos = Len(input)
           /\ ps.curr.type = "eof"
           /\ Len(out) > 0

\* parse returned no diagnostic for a table of two columns.
C12_Witness ==
    /\ pc = "done"
    /\ ps.diagnostics = <<>>
    /\ input = <<"table", "{", "x", ";", "x", "}">>
    /\ Len(out) = 1
    /\ out[1].type = "Table"
    /\ Len(out[1].columns) = 2

----------------------------------------------------------------------------
(* C13 *)

MaxChildLen == 3    \* tokens of the middle child in an input of SpecChild

BlockPrefixes == {<<"table", "{">>, <<"folder", "\"s\"", "{">>}

\* A table or a folder of three children separated by semis: x, a child of
\* tokens that are neither semi nor brace, and x
SpecChild ==
    InitWith({prefix \o <<"x", ";">> \o child \o <<";", "x", "}">> :
                 prefix \in BlockPrefixes,
                 child \in Inputs({"x", ")", "-", "[", "=", "1"}, MaxChildLen)
                              \ {<<>>}})
        /\ [][Next]_vars

\* The statement the child x parses to
StatementX ==
    [type |-> "ExprStatement", expr |-> [type |-> "Identifier", name |-> <<"x">>],
     style |-> NoNode, parameters |-> NoNode, residualVariable |-> NoNode]

\* C13: when a child of a table or folder body raises a fatal error and is
\* followed by a semi before the closing '}', parse still returns the Table
\* or Folder node, with the children parsed before and after the failing one.
C13_NestedFatalKeepsBlock ==
    (/\ pc = "done"
     /\ \E i \in 1..Len(ps.recoveries) : ~ps.recoveries[i].top)
        => /\ Len(out) = 1
           /\ out[1].type \in {"Table", "Folder"}
           /\ out[1].type = "Table" => out[1].columns = <<StatementX, StatementX>>
           /\ out[1].type = "Folder"
                  => out[1].children = <<StatementX, StatementX>>

----------------------------------------------------------------------------
(* C14 *)

MaxChainLen == 5    \* tokens in a chain of SpecChain

\* Chains of comparisons, at statement top level and in parentheses
SpecChain ==
    InitWith(Inputs({"x", "=", "<", ">"}, MaxChainLen)
                 \cup {<<"(">> \o w \o <<")">> :
                          w \in Inputs({"x", "=", "<", ">"}, MaxChainLen)})
        /\ [][Next]_vars

\* x op x op x with '=' as one of the operators
IsEqChain(w) ==
    /\ Len(w) = 5
    /\ w[1] = "x" /\ w[3] = "x" /\ w[5] = "x"
    /\ {w[2], w[4]} \subseteq {"=", "<", ">"}
    /\ "=" \in {w[2], w[4]}

\* C14: a chain of two comparisons one of which is '=' raises the fatal
\* diagnostic of compareOpParselet and yields no node for the statement, at
\* statement top level and inside parentheses.
C14_EqChainsAreFatal ==
    (/\ pc = "done"
     /\ \/ IsEqChain(input)
        \/ /\ Len(input) = 7
           /\ input[1] = "("
           /\ input[7] = ")"
           /\ IsEqChain(SubSeq(input, 2, 6)))
        => (out = <<>> /\ HasDiagnostic("Cannot chain"))

----------------------------------------------------------------------------
(* C15 *)

MaxUpdateLen == 6   \* tokens in a short input of SpecUpdate

\* The statement x = x -> x + 1 , y -> y + 1
UpdateExample ==
    <<"x", "=", "x", "->", "x", "+", "1", ",", "y", "->", "y", "+", "1">>

\* The statement of the claim, bare and in parentheses, and every short input
\* of identifiers, '=', ',', '->' and parentheses
SpecUpdate ==
    InitWith(Inputs({"x", "=", ",", "->", "(", ")"}, MaxUpdateLen)
                 \cup {UpdateExample, <<"(">> \o UpdateExample \o <<")">>})
        /\ [][Next]_vars

Ident(c) == [type |-> "Identifier", name |-> <<c>>]

\* UpdateRule(c, c + 1)
Increment(c) ==
    [type |-> "UpdateRule", variable |-> Ident(c),
     expr |-> [type |-> "BinaryExpression", op |-> "+", left |-> Ident(c),
               right |-> [type |-> "Number", value |-> 1]]]

IsEq(node) == node.type = "BinaryExpression" /\ node.op = "="

IsBareSequence(node) ==
    node.type = "SequenceExpression" /\ ~node.parenWrapped

\* C15: the right operand of '=' is parsed at threshold seq - 1 when the '='
\* is taken by the loop of the parseMain of a statement, and at rel
\* otherwise: the statement x = x -> x + 1 , y -> y + 1 parses as
\* BinaryExpression(=, x, SequenceExpression(UpdateRule, UpdateRule)), the
\* same tokens in parentheses as a SequenceExpression whose left is the '='
\* expression; an '=' whose right operand is a bare sequence is the
\* expression of a statement, and no statement of an input without
\* parentheses is a bare sequence whose left is an '=' expression.
C15_TopLevelEqThreshold ==
    /\ (pc = "done" /\ input = UpdateExample)
           => out = <<[StatementX EXCEPT !.expr =
                         [type |-> "BinaryExpression", op |-> "=",
                          left |-> Ident("x"),
                          right |-> [type |-> "SequenceExpression",
                                     left |-> Increment("x"),
                                     right |-> Increment("y"),
                                     parenWrapped |-> FALSE]]]>>
    /\ (pc = "done" /\ input = <<"(">> \o UpdateExample \o <<")">>)
           => out = <<[StatementX EXCEPT !.expr =
                         [type |-> "SequenceExpression",
                          left |-> [type |-> "BinaryExpression", op |-> "=",
                                    left |-> Ident("x"),
                                    right |-> Increment("x")],
                          right |-> Increment("y"),
                          parenWrapped |-> TRUE]]>>
    /\ \A i \in 1..Len(ProgramNodes) :
           (IsEq(ProgramNodes[i]) /\ IsBareSequence(ProgramNodes[i].right))
               => \E j \in 1..Len(out) :
                      /\ out[j].type = "ExprStatement"
                      /\ out[j].expr = ProgramNodes[i]
    /\ (\A k \in 1..Len(input) : input[k] # "(")
           => \A j \in 1..Len(out) :
                  (out[j].type = "ExprStatement" /\ IsBareSequence(out[j].expr))
                      => ~IsEq(out[j].expr.left)

\* parse returned the statement of the claim with the sequence of update
\* rules as the right operand of '='.
C15_Witness ==
    /\ pc = "done"
    /\ input = UpdateExample
    /\ Len(out) = 1
    /\ IsEq(out[1].expr)
    /\ IsBareSequence(out[1].expr.right)

----------------------------------------------------------------------------
(* C16 *)

\* The end offset of the last token of the input
InputLength == OffsetOf(Len(input) + 1)

\* C16: the eof token the ParseState holds as lookahead has the end offset of
\* the last token of the input as its offset, and every 'Unexpected end of
\* file' diagnostic has the span {n, n} with n the length of the input.
C16_EofOffset ==
    /\ ps.curr.type = "eof" => ps.curr.offset = InputLength
    /\ \A i \in 1..Len(ps.diagnostics) :
           ps.diagnostics[i].message = "Unexpected end of file"
               => /\ ps.diagnostics[i].from = InputLength
                  /\ ps.diagnostics[i].to = InputLength

----------------------------------------------------------------------------
(* C17 *)

MaxConsumeLen == 4  \* tokens in an input of SpecConsume

\* consume and consumeType alone: one call on a new ParseState, or on one
\* whose lookahead is buffered by a peek
InitConsume ==
    /\ input \in Inputs({"x", ";", "}", ")", " ", "#"}, MaxConsumeLen)
    /\ ps \in {NewParseState, peek(NewParseState).ps}
    /\ out = <<>>
    /\ pc = "call"
    /\ last = ""
    /\ idIn = <<>>
    /\ idOut = [name |-> <<>>, error |-> ""]
    /\ ret = NoCall

\* ps.consume(expected), lines 135-145
Consume ==
    /\ pc = "call"
    /\ \E expected \in {"}", ")"} :
           \E r \in {consume(ps, expected)} :
               /\ ps' = r.ps
               /\ ret' = [op |-> "consume", expected |-> expected,
                          exc |-> r.exc,
                          tok |-> IF Failed(r) THEN NoToken ELSE r.node]
    /\ pc' = "called"
    /\ UNCHANGED <<input, out, last, idIn, idOut>>

\* ps.consumeType(expected), lines 147-157
ConsumeType ==
    /\ pc = "call"
    /\ \E expected \in {"semi", "id"} :
           \E r \in {consumeType(ps, expected)} :
               /\ ps' = r.ps
               /\ ret' = [op |-> "consumeType", expected |-> expected,
                          exc |-> r.exc,
                          tok |-> IF Failed(r) THEN NoToken ELSE r.node]
    /\ pc' = "called"
    /\ UNCHANGED <<input, out, last, idIn, idOut>>

NextConsume == Consume \/ ConsumeType

SpecConsume == InitConsume /\ [][NextConsume]_vars

\* The i-th token of the input is what the call of ret looks for
Matches(i) ==
    IF ret.op = "consume" THEN input[i] = ret.expected
    ELSE TypeOf(input[i]) = ret.expected

\* The indices of the tokens of the input that match
MatchingTokens == {i \in 1..Len(input) : Matches(i)}

\* The index of the first token that matches, one past the input if none does
FirstMatch ==
    IF MatchingTokens = {} THEN Len(input) + 1
    ELSE CHOOSE i \in MatchingTokens : \A j \in MatchingTokens : i <= j

RECURSIVE SkipDiagnostics(_)
\* The diagnostics due for the first n tokens when none of them matches: none
\* for a space or a comment, 'Invalid character' for an invalid token, and
\* one 'Expected ... Skipping it.' for every other token
SkipDiagnostics(n) ==
    IF n = 0 THEN <<>>
    ELSE SkipDiagnostics(n - 1) \o
         (IF TypeOf(input[n]) \in {"space", "comment"} THEN <<>>
          ELSE <<[severity |-> "error",
                  message |-> IF TypeOf(input[n]) = "invalid"
                              THEN "Invalid character"
                              ELSE IF ret.op = "consume"
                              THEN "Expected value. Skipping it."
                              ELSE "Expected type. Skipping it.",
                  from |-> OffsetOf(n), to |-> OffsetOf(n + 1)]>>)

\* C17: consume(expected) returns the first token whose lexeme is expected,
\* and consumeType(kind) the first token of that kind, after one 'Expected
\* ... Skipping it.' error for each token met before it, in token order;
\* when no token matches, the call reports every token that way, then
\* 'Unexpected end of file' at the end of the input, and throws a ParseError
\* without returning a token.
C17_ConsumeSkipsToMatch ==
    pc = "called" =>
        IF MatchingTokens # {}
        THEN /\ ret.exc = "none"
             /\ ret.tok = Token(FirstMatch)
             /\ Matches(FirstMatch)
             /\ ps.diagnostics = SkipDiagnostics(FirstMatch - 1)
             /\ Consumed(ps) = FirstMatch
        ELSE /\ ret.exc = "ParseError"
             /\ ret.tok = NoToken
             /\ ps.diagnostics =
                    Append(SkipDiagnostics(Len(input)),
                           [severity |-> "error",
                            message |-> "Unexpected end of file",
                            from |-> InputLength, to |-> InputLength])

\* consume("}") returned the '}' behind a semi and an identifier, both
\* skipped with an error.
C17_Witness ==
    /\ pc = "called"
    /\ ret.op = "consume"
    /\ ret.expected = "}"
    /\ input = <<";", "x", "}">>
    /\ ret.tok.value = "}"
    /\ Len(ps.diagnostics) = 2

====
